---- MODULE Spec2Model ----
(***************************************************************************)
(* Row navigation and URL-field engine of the xlsx row viewer: the curses  *)
(* front end (xlsx_row_viewer.py) and the Tk front end                     *)
(* (xlsx_row_viewer_gui.py).                                               *)
(*                                                                         *)
(* Text is a sequence of one-character strings.  Python's None for an      *)
(* Optional[str] is the empty sequence (the code only ever tests such a    *)
(* value for truthiness).  Python list positions stay 0-based, as in the   *)
(* code; a TLA+ sequence position is the Python position plus one.         *)
(***************************************************************************)
EXTENDS Integers, Sequences, FiniteSets, TLC

VARIABLES
    app,            \* which program runs: "term", "scenario" (term, keys recorded), "gui", "view"
    df,             \* the loaded DataFrame
    pc,             \* position of the running program
    row_idx,        \* interactive(): row_idx
    url_focus_i,    \* interactive(): url_focus_i
    focused_line,   \* draw(): focused_line (-1: no line is focused)
    ch,             \* interactive(): the key last returned by getch()
    path,           \* App.path
    sheets,         \* App.sheets
    sheet_var,      \* App.sheet_var
    combo_values,   \* App.sheet_combo["values"]
    row,            \* App.row
    focused_url,    \* App.focused_url
    buttons,        \* URLs of the "Open URL" buttons now in the scroll area
    msg,            \* the messagebox shown by the last callback
    event,          \* the Tk callback that ran last
    opened,         \* URLs handed to webbrowser.open by the last step
    iloc_arg,       \* row positions handed to df.iloc by the last step
    keys,           \* history: the keys read so far (scenario runs only)
    tab_run,        \* history: TAB keys handled in a row since the last other key
    tab_from,       \* history: url_focus_i when that run of TABs began
    view_idx,       \* row_lines(): the row_idx argument (row_lines alone)
    view_out,       \* row_lines(): what the call returned
    gui_lines,      \* render_row(): the label and value widgets built for the same row
    cell,           \* one raw cell value (one field alone)
    cell_out        \* what the two front ends show and detect for that cell

termVars == <<row_idx, url_focus_i, focused_line, ch>>
guiVars  == <<path, sheets, sheet_var, combo_values, row, focused_url, buttons, msg, event>>
histVars == <<keys, tab_run, tab_from>>
viewVars == <<view_idx, view_out, gui_lines>>
cellVars == <<cell, cell_out>>
vars == <<app, df, pc, termVars, guiVars, opened, iloc_arg, histVars, viewVars, cellVars>>

\* ------------------------------------------------------------------ bounds

MaxRows == 3        \* rows of a table browsed in the front ends
MaxTabRun == 4      \* the TAB-run history counts up to this many TABs
ViewMaxRows == 1    \* rows of a table handed to row_lines alone
ViewCols == 2       \* columns of a table handed to row_lines alone
MaxPieces == 3      \* pieces the text of a single cell is put together from

\* ------------------------------------------------------------- text helpers

None == <<>>

Min(a, b) == IF a < b THEN a ELSE b
Max(a, b) == IF a > b THEN a ELSE b

\* str.lower() on the letters the model's texts use
Lower(c) ==
    CASE c = "H" -> "h" [] c = "T" -> "t" [] c = "P" -> "p"
      [] c = "S" -> "s" [] c = "W" -> "w" [] c = "A" -> "a"
      [] OTHER -> c

LowerSeq(s) == [i \in 1..Len(s) |-> Lower(s[i])]

\* \s of the regular expression, and what str.strip() removes
IsSpace(c) == c \in {" ", "\t", "\n"}

\* \w of the regular expression
IsWord(c) == Lower(c) \in {"h", "t", "p", "s", "w", "a", "b", "x", "e", "m", "y",
                           "0", "1", "2", "3", "4", "5", "6", "7", "8", "9", "_"}

\* [^\s<>\"] of URL_RE
UrlChar(c) == ~IsSpace(c) /\ c \notin {"<", ">", "\""}

\* the least and the greatest member of a non-empty set of integers
SetMin(S) == CHOOSE j \in S : \A k \in S : j <= k
SetMax(S) == CHOOSE j \in S : \A k \in S : j >= k

\* the part of s between the least and the greatest position in keep
Between(s, keep) == IF keep = {} THEN <<>> ELSE SubSeq(s, SetMin(keep), SetMax(keep))

\* str.strip()
Strip(s) == Between(s, {i \in 1..Len(s) : ~IsSpace(s[i])})

\* str.startswith(lit)
StartsWith(s, lit) == Len(s) >= Len(lit) /\ SubSeq(s, 1, Len(lit)) = lit

\* the literal lit (lower case) matches s at position i under (?i)
MatchAt(s, i, lit) ==
    /\ i + Len(lit) - 1 <= Len(s)
    /\ LowerSeq(SubSeq(s, i, i + Len(lit) - 1)) = lit

\* the first position >= i of s that holds no URL character (Len(s) + 1 if none)
RunStop(s, i) == SetMin({j \in i..(Len(s) + 1) : j = Len(s) + 1 \/ ~UrlChar(s[j])})

\* length of the greedy run [^\s<>\"]* starting at position i <= Len(s) + 1
RunLen(s, i) == RunStop(s, i) - i

\* \b just before position i
WordBoundary(s, i) ==
    (i > 1 /\ i - 1 <= Len(s) /\ IsWord(s[i - 1])) # (i >= 1 /\ i <= Len(s) /\ IsWord(s[i]))

HttpsLit == <<"h", "t", "t", "p", "s", ":", "/", "/">>
HttpLit  == <<"h", "t", "t", "p", ":", "/", "/">>
WwwLit   == <<"w", "w", "w", ".">>

FirstNonZero(a, b) == IF a > 0 THEN a ELSE b

\* length of the match of lit[^\s<>\"]+ at position i, 0 if none
LitRunLen(s, i, lit) ==
    IF MatchAt(s, i, lit) /\ RunLen(s, i + Len(lit)) >= 1
    THEN RunStop(s, i + Len(lit)) - i
    ELSE 0

\* length of the match of \bhttps?://[^\s<>\"]+ at position i, 0 if none:
\* the optional s is tried first
HttpMatchLen(s, i) ==
    IF ~WordBoundary(s, i) THEN 0
    ELSE FirstNonZero(LitRunLen(s, i, HttpsLit), LitRunLen(s, i, HttpLit))

\* length of the match of www\.[^\s<>\"]+ at position i, 0 if none
WwwMatchLen(s, i) == LitRunLen(s, i, WwwLit)

\* the alternation at position i: the first alternative is tried first
UrlReMatchLen(s, i) == FirstNonZero(HttpMatchLen(s, i), WwwMatchLen(s, i))

\* group(0) of the match that starts at position i
GroupAt(s, i) == SubSeq(s, i, i + UrlReMatchLen(s, i) - 1)

\* group(0) of the leftmost of the matches that start at the positions hits
GroupFrom(s, hits) == IF hits = {} THEN None ELSE GroupAt(s, SetMin(hits))

\* URL_RE.search(s): group(0) of the leftmost match, None if there is none
UrlReSearch(s) == GroupFrom(s, {i \in 1..Len(s) : UrlReMatchLen(s, i) > 0})

\* normalize_url, lines 60-63: the matched token, https:// put before www.
WithScheme(url) ==
    IF url = None THEN None
    ELSE IF StartsWith(LowerSeq(url), WwwLit)
         THEN <<"h", "t", "t", "p", "s", ":", "/", "/">> \o url
         ELSE url

\* normalize_url, lines 55-63, on the stripped text
NormalizeStripped(t) == IF t = <<>> THEN None ELSE WithScheme(UrlReSearch(t))

normalize_url(s) == NormalizeStripped(Strip(s))

\* ------------------------------------------------------------------ cells

\* a cell is NaN, a text or a float whole + frac/10
NaN == [kind |-> "nan", s |-> <<>>, whole |-> 0, frac |-> 0]
Str(s) == [kind |-> "str", s |-> s, whole |-> 0, frac |-> 0]
Float(w, f) == [kind |-> "float", s |-> <<>>, whole |-> w, frac |-> f]

is_nan(x) == x.kind = "nan"

DigitChars == <<"0", "1", "2", "3", "4", "5", "6", "7", "8", "9">>

\* str(x) of a cell that is not NaN
PyStr(x) ==
    IF x.kind = "float"
    THEN <<DigitChars[x.whole + 1], ".", DigitChars[x.frac + 1]>>
    ELSE x.s

to_str(x) ==
    IF is_nan(x) THEN <<>>
    ELSE IF x.kind = "float" /\ x.frac = 0 THEN <<DigitChars[x.whole + 1]>>
    ELSE PyStr(x)

EmptyShown == <<"(", "e", "m", "p", "t", "y", ")">>

\* ----------------------------------------------------------------- tables

ColNames == <<"c1", "c2", "c3", "c4">>

\* a DataFrame: its column labels and its rows, each one cell per column
Frame(ncols, rows) == [columns |-> SubSeq(ColNames, 1, ncols), rows |-> rows]

\* pd.DataFrame()
EmptyFrame == Frame(0, <<>>)

len(d) == Len(d.rows)

\* a Python / pandas positional index i into n items: negative positions
\* count from the end, anything else raises IndexError
PyIndexOk(n, i) == -n <= i /\ i < n
PyIndexPos(n, i) == IF i >= 0 THEN i + 1 ELSE n + i + 1

\* df.iloc[row_idx]
IlocOk(d, i) == PyIndexOk(len(d), i)
Iloc(d, i) == d.rows[PyIndexPos(len(d), i)]

\* lines 97-98: the (col, shown, url) triple of a field whose text is val_s
FieldOf(col, val_s, url) ==
    [col |-> col, shown |-> IF val_s # <<>> THEN val_s ELSE EmptyShown, url |-> url]

\* lines 95-98: the triple row_lines appends for one column
FieldLine(col, x) == FieldOf(col, to_str(x), normalize_url(to_str(x)))

\* the position of every line appended, whether it carries a URL or not
UrlIndices_All(lines) == [k \in 1..Len(lines) |-> k - 1]

\* lines 99-100: the 0-based positions of the lines that carry a URL, in order
UrlIndices(lines) ==
    SelectSeq([k \in 1..Len(lines) |-> k - 1], LAMBDA k : lines[k + 1].url # None)

\* what row_lines returns for the lines it built
ViewOf(lines) == [ok |-> TRUE, lines |-> lines, url_line_indices |-> UrlIndices(lines)]

\* no line for a column whose value is empty
LinesOf_SkipEmpty(columns, r) ==
    SelectSeq([c \in 1..Len(columns) |-> FieldLine(columns[c], r[c])],
              LAMBDA l : l.shown # EmptyShown)

\* lines 92-98: one line per column of the row r, in column order
LinesOf(columns, r) == [c \in 1..Len(columns) |-> FieldLine(columns[c], r[c])]

\* row_lines(df, row_idx); ok = FALSE: df.iloc raised IndexError
row_lines(d, i) ==
    IF ~IlocOk(d, i)
    THEN [ok |-> FALSE, lines |-> <<>>, url_line_indices |-> <<>>]
    ELSE ViewOf(LinesOf(d.columns, Iloc(d, i)))

\* ------------------------------------------------------- sample contents

TextX    == Str(<<"x">>)
TextWww  == Str(<<"w", "w", "w", ".", "a">>)
TextHttp == Str(<<"h", "t", "t", "p", ":", "/", "/", "a">>)
TextSee  == Str(<<"s", " ", "w", "w", "w", ".", "b">>)
TextWWW  == Str(<<"W", "W", "W", ".", "a">>)
TextBlank == Str(<<" ">>)

\* rows of three columns with 0, 1, 2 and 3 URL-bearing fields
RowNoUrl    == <<TextX, NaN, Float(3, 0)>>
RowOneUrl   == <<TextWww, TextX, NaN>>
RowTwoUrl   == <<TextHttp, TextBlank, TextWWW>>
RowThreeUrl == <<TextSee, TextWww, TextHttp>>

RowPalette == {RowNoUrl, RowOneUrl, RowTwoUrl, RowThreeUrl}

SeqsUpTo(S, n) == UNION {[1..k -> S] : k \in 0..n}

\* the tables the front ends are started on
NavTables == {Frame(3, rows) : rows \in SeqsUpTo(RowPalette, MaxRows)}

\* the cells of a table handed to row_lines alone
CellPalette == {NaN, TextX, TextWww, TextSee, Float(2, 5)}

ViewTables ==
    {Frame(ViewCols, rows) : rows \in SeqsUpTo([1..ViewCols -> CellPalette], ViewMaxRows)}

\* what the two front ends made of a cell, before they are given one
CellOutNone == [term_shown |-> <<>>, term_url |-> None, gui_shown |-> <<>>, gui_url |-> None]

\* no single cell is being shown, and render_row built no widgets for row_lines' row
NoCell == gui_lines = <<>> /\ cell = NaN /\ cell_out = CellOutNone

\* ------------------------------------------- terminal viewer: interactive()

\* draw(), line 118: no line is focused
NoFocus == -1

\* draw(), lines 119-120: the focus draw() returns for n URL-bearing lines
DrawFocus(f, n) == IF n > 0 THEN Max(0, Min(f, n - 1)) ELSE f

\* KEY_RIGHT with the focus reset placed outside the bounds test
KeyRight_ResetAlways(r, f, n) == IF r < n - 1 THEN <<r + 1, 0>> ELSE <<r, 0>>

\* KEY_RIGHT without the reset of the focus
KeyRight_KeepFocus(r, f, n) == IF r < n - 1 THEN <<r + 1, f>> ELSE <<r, f>>

\* KEY_RIGHT, lines 168-171: the new <<row_idx, url_focus_i>>
KeyRight(r, f, n) == IF r < n - 1 THEN <<r + 1, 0>> ELSE <<r, f>>

\* KEY_LEFT without the floor at the first row
KeyLeft_NoFloor(r, f) == <<r - 1, 0>>

\* KEY_LEFT, lines 173-176: the new <<row_idx, url_focus_i>>
KeyLeft(r, f) == IF r > 0 THEN <<r - 1, 0>> ELSE <<r, f>>

\* TAB without the wrap-around
KeyTab_NoWrap(f, n) == IF n > 0 THEN f + 1 ELSE f

\* TAB stopping at the last URL instead of wrapping
KeyTab_Stick(f, n) == IF n > 0 THEN Min(f + 1, n - 1) ELSE f

\* TAB stepping two URLs on
KeyTab_Skip(f, n) == IF n > 0 THEN (f + 2) % n ELSE f

\* TAB incrementing before the test for an empty list
KeyTab_NoGuard(f, n) == IF n > 0 THEN (f + 1) % n ELSE f + 1

\* TAB, lines 180-181: the new url_focus_i for url_line_indices of length n
KeyTab(f, n) == IF n > 0 THEN (f + 1) % n ELSE f

\* the key presses of the navigation scenario of the specification, section 8
Script == <<"KEY_RIGHT", "KEY_RIGHT", "TAB", "TAB", "KEY_LEFT", "KEY_LEFT", "KEY_LEFT">>

IsTerm == app \in {"term", "scenario"}

\* a scenario run reads no more keys than the script is long, and records them
KeyAllowed == app = "scenario" => Len(keys) < Len(Script)
KeysAfter(k) == IF app = "scenario" THEN Append(keys, k) ELSE keys

\* what a step that touches no GUI state and no row_lines-alone state leaves alone
TermFrame == UNCHANGED <<app, df, guiVars, viewVars, cellVars>>

\* the state interactive() starts in (draw() has not run yet)
TermStart(a, d) ==
    /\ app = a
    /\ df = d
    /\ pc = "draw"
    /\ row_idx = 0
    /\ url_focus_i = 0
    /\ focused_line = NoFocus
    /\ ch = "none"
    /\ path = "" /\ sheets = <<>> /\ sheet_var = "" /\ combo_values = <<>>
    /\ row = 0 /\ focused_url = None /\ buttons = <<>>
    /\ msg = "none" /\ event = "none"
    /\ opened = <<>> /\ iloc_arg = <<>>
    /\ keys = <<>> /\ tab_run = 0 /\ tab_from = 0
    /\ view_idx = 0 /\ view_out = row_lines(EmptyFrame, 0)
    /\ NoCell

TermInit == \E d \in NavTables : TermStart("term", d)

\* draw(), lines 116-146, for the view rl of the row and the clamped focus f
DrawRow(rl, n, f) ==
    IF ~rl.ok \/ (n > 0 /\ ~PyIndexOk(n, f))
    THEN pc' = "crashed" /\ UNCHANGED <<url_focus_i, focused_line>>
    ELSE /\ pc' = "getch"
         /\ url_focus_i' = f
         /\ focused_line' = IF n > 0 THEN rl.url_line_indices[PyIndexPos(n, f)] ELSE NoFocus

DrawView(rl) ==
    DrawRow(rl, Len(rl.url_line_indices), DrawFocus(url_focus_i, Len(rl.url_line_indices)))

\* draw(stdscr, title, df, row_idx, url_focus_i) and the assignment of its result
TermDraw ==
    /\ IsTerm /\ pc = "draw"
    /\ opened' = <<>>
    /\ TermFrame
    /\ UNCHANGED <<row_idx, ch, histVars>>
    /\ IF len(df) = 0
       THEN /\ pc' = "getch"
            /\ iloc_arg' = <<>>
            /\ UNCHANGED <<url_focus_i, focused_line>>
       ELSE /\ iloc_arg' = <<row_idx>>
            /\ DrawView(row_lines(df, row_idx))

\* len(df) == 0: interactive() returns on the first key, whatever it is
TermEmptyReturn ==
    /\ IsTerm /\ pc = "getch" /\ len(df) = 0 /\ KeyAllowed
    /\ \E k \in {"KEY_RIGHT", "KEY_LEFT", "TAB", "ENTER", "q", "other"} :
           ch' = k /\ keys' = KeysAfter(k)
    /\ pc' = "done"
    /\ opened' = <<>> /\ iloc_arg' = <<>>
    /\ TermFrame
    /\ UNCHANGED <<row_idx, url_focus_i, focused_line, tab_run, tab_from>>

TermQuit ==
    /\ IsTerm /\ pc = "getch" /\ len(df) > 0 /\ KeyAllowed
    /\ ch' = "q" /\ keys' = KeysAfter("q")
    /\ pc' = "done"
    /\ opened' = <<>> /\ iloc_arg' = <<>>
    /\ TermFrame
    /\ UNCHANGED <<row_idx, url_focus_i, focused_line, tab_run, tab_from>>

\* lines 168-176: the row key moved the cursor to nxt = <<row_idx, url_focus_i>>
RowKeyTo(nxt) ==
    /\ row_idx' = nxt[1]
    /\ url_focus_i' = nxt[2]
    /\ tab_run' = 0 /\ tab_from' = 0
    /\ pc' = "draw"
    /\ opened' = <<>> /\ iloc_arg' = <<>>
    /\ TermFrame
    /\ UNCHANGED focused_line

TermKeyRight ==
    /\ IsTerm /\ pc = "getch" /\ len(df) > 0 /\ KeyAllowed
    /\ ch' = "KEY_RIGHT" /\ keys' = KeysAfter("KEY_RIGHT")
    /\ RowKeyTo(KeyRight(row_idx, url_focus_i, len(df)))

TermKeyLeft ==
    /\ IsTerm /\ pc = "getch" /\ len(df) > 0 /\ KeyAllowed
    /\ ch' = "KEY_LEFT" /\ keys' = KeysAfter("KEY_LEFT")
    /\ RowKeyTo(KeyLeft(row_idx, url_focus_i))

\* lines 179-181 for the view rl of the current row
TabIn(rl, n) ==
    IF ~rl.ok
    THEN pc' = "crashed" /\ UNCHANGED <<url_focus_i, tab_run, tab_from>>
    ELSE /\ pc' = "draw"
         /\ url_focus_i' = KeyTab(url_focus_i, n)
         /\ IF n > 0
            THEN /\ tab_run' = Min(tab_run + 1, MaxTabRun)
                 /\ tab_from' = IF tab_run = 0 THEN url_focus_i ELSE tab_from
            ELSE UNCHANGED <<tab_run, tab_from>>

TabView(rl) == TabIn(rl, Len(rl.url_line_indices))

TermKeyTab ==
    /\ IsTerm /\ pc = "getch" /\ len(df) > 0 /\ KeyAllowed
    /\ ch' = "TAB" /\ keys' = KeysAfter("TAB")
    /\ iloc_arg' = <<row_idx>>
    /\ opened' = <<>>
    /\ TermFrame
    /\ UNCHANGED <<row_idx, focused_line>>
    /\ TabView(row_lines(df, row_idx))

\* lines 187-189: webbrowser.open for the url of the focused line
OpenIf(url) == IF url # None THEN <<url>> ELSE <<>>

\* ENTER opening the first URL of the row instead of the focused one
EnterIn_FirstUrl(rl, n) ==
    IF ~rl.ok
    THEN pc' = "crashed" /\ opened' = <<>>
    ELSE /\ pc' = "draw"
         /\ opened' = IF n > 0 THEN OpenIf(rl.lines[rl.url_line_indices[1] + 1].url) ELSE <<>>

\* lines 184-189 for the view rl of the current row
EnterIn(rl, n) ==
    IF ~rl.ok \/ (n > 0 /\ ~PyIndexOk(n, url_focus_i))
    THEN pc' = "crashed" /\ opened' = <<>>
    ELSE /\ pc' = "draw"
         /\ opened' =
                IF n > 0
                THEN OpenIf(rl.lines[rl.url_line_indices[PyIndexPos(n, url_focus_i)] + 1].url)
                ELSE <<>>

EnterView(rl) == EnterIn(rl, Len(rl.url_line_indices))

TermKeyEnter ==
    /\ IsTerm /\ pc = "getch" /\ len(df) > 0 /\ KeyAllowed
    /\ ch' = "ENTER" /\ keys' = KeysAfter("ENTER")
    /\ iloc_arg' = <<row_idx>>
    /\ TermFrame
    /\ tab_run' = 0 /\ tab_from' = 0
    /\ UNCHANGED <<row_idx, url_focus_i, focused_line>>
    /\ EnterView(row_lines(df, row_idx))

\* any other key: no branch of the loop body applies
TermKeyOther ==
    /\ IsTerm /\ pc = "getch" /\ len(df) > 0 /\ KeyAllowed
    /\ ch' = "other" /\ keys' = KeysAfter("other")
    /\ pc' = "draw"
    /\ opened' = <<>> /\ iloc_arg' = <<>>
    /\ tab_run' = 0 /\ tab_from' = 0
    /\ TermFrame
    /\ UNCHANGED <<row_idx, url_focus_i, focused_line>>

TermKey ==
    \/ TermEmptyReturn
    \/ TermQuit
    \/ TermKeyRight
    \/ TermKeyLeft
    \/ TermKeyTab
    \/ TermKeyEnter
    \/ TermKeyOther

TermNext ==
    \/ TermDraw
    \/ TermKey

\* ------------------------------------------------------------ GUI: App

\* the table of the navigation scenario: one URL field, none, two
ScenarioTable == Frame(2, <<<<TextWww, TextX>>, <<TextX, NaN>>, <<TextHttp, TextWww>>>>)

\* the files the file picker can return
Files == {"a.xlsx", "b.xlsx", "bad.xlsx", "none.xlsx"}

\* list_sheets(path); ok = FALSE: pd.ExcelFile raised
list_sheets(p) ==
    CASE p = "a.xlsx" -> [ok |-> TRUE, names |-> <<"S1", "S2">>]
      [] p = "b.xlsx" -> [ok |-> TRUE, names |-> <<"S1", "E", "X">>]
      [] p = "none.xlsx" -> [ok |-> TRUE, names |-> <<>>]
      [] OTHER -> [ok |-> FALSE, names |-> <<>>]

\* load_sheet(path, sheet_name).reset_index(drop=True); ok = FALSE: read_excel raised
load_sheet(p, s) ==
    CASE p = "a.xlsx" /\ s = "S1" -> [ok |-> TRUE, frame |-> ScenarioTable]
      [] p = "a.xlsx" /\ s = "S2" -> [ok |-> TRUE, frame |-> Frame(3, <<RowThreeUrl>>)]
      [] p = "b.xlsx" /\ s = "S1" -> [ok |-> TRUE, frame |-> Frame(3, <<RowTwoUrl, RowNoUrl>>)]
      [] p = "b.xlsx" /\ s = "E" -> [ok |-> TRUE, frame |-> Frame(3, <<>>)]
      [] OTHER -> [ok |-> FALSE, frame |-> EmptyFrame]

IsHttp(s) == StartsWith(LowerSeq(s), HttpLit) \/ StartsWith(LowerSeq(s), HttpsLit)

\* render_row, lines 413-417: the url of a field whose stripped text is s
GuiUrlOf(s) ==
    IF StartsWith(s, WwwLit) THEN <<"h", "t", "t", "p", "s", ":", "/", "/">> \o s
    ELSE IF IsHttp(s) THEN s
    ELSE None

\* render_row, lines 407-417: the url of the "Open URL" button of a cell, None if it has none
GuiUrl(x) == IF is_nan(x) THEN None ELSE GuiUrlOf(Strip(PyStr(x)))

NotNone(u) == u # None

\* render_row, lines 404-431: the urls of the buttons built for the row r, in column order
RenderButtons(r) == SelectSeq([c \in 1..Len(r) |-> GuiUrl(r[c])], NotNone)

\* render_row() without the test for an empty table
render_row_NoEmptyTest(d, r, fu) ==
    IF ~IlocOk(d, r)
    THEN [buttons |-> <<>>, focused_url |-> None, iloc |-> <<r>>, raised |-> TRUE]
    ELSE [buttons |-> RenderButtons(Iloc(d, r)), focused_url |-> None,
          iloc |-> <<r>>, raised |-> FALSE]

\* render_row() without the reset of focused_url
render_row_KeepFocus(d, r, fu) ==
    IF len(d) = 0
    THEN [buttons |-> <<>>, focused_url |-> fu, iloc |-> <<>>, raised |-> FALSE]
    ELSE IF ~IlocOk(d, r)
    THEN [buttons |-> <<>>, focused_url |-> fu, iloc |-> <<r>>, raised |-> TRUE]
    ELSE [buttons |-> RenderButtons(Iloc(d, r)), focused_url |-> fu,
          iloc |-> <<r>>, raised |-> FALSE]

\* render_row() on the table d at row r with focused_url fu: what it leaves behind
\* (raised: df.iloc raised inside the callback, which Tk reports and survives)
render_row(d, r, fu) ==
    IF len(d) = 0
    THEN [buttons |-> <<>>, focused_url |-> fu, iloc |-> <<>>, raised |-> FALSE]
    ELSE IF ~IlocOk(d, r)
    THEN [buttons |-> <<>>, focused_url |-> None, iloc |-> <<r>>, raised |-> TRUE]
    ELSE [buttons |-> RenderButtons(Iloc(d, r)), focused_url |-> None,
          iloc |-> <<r>>, raised |-> FALSE]

\* the widgets and fields render_row left behind; m: the messagebox shown before it
Rendered(v, m) ==
    /\ buttons' = v.buttons
    /\ focused_url' = v.focused_url
    /\ iloc_arg' = v.iloc
    /\ msg' = IF v.raised THEN "traceback" ELSE m

GuiFrame == UNCHANGED <<app, pc, termVars, histVars, viewVars, cellVars>>

\* load_current_sheet() without the reset of the row
Loaded_KeepRow(res) ==
    /\ df' = IF res.ok THEN res.frame ELSE EmptyFrame
    /\ row' = row
    /\ Rendered(render_row(IF res.ok THEN res.frame ELSE EmptyFrame, row, None),
                IF res.ok THEN "none" ELSE "error_load")

\* load_current_sheet(), lines 265-274, res being what load_sheet returned
Loaded(res) ==
    /\ df' = IF res.ok THEN res.frame ELSE EmptyFrame
    /\ row' = 0
    /\ Rendered(render_row(IF res.ok THEN res.frame ELSE EmptyFrame, 0, None),
                IF res.ok THEN "none" ELSE "error_load")

\* App.__init__ on a file whose sheets can be listed, up to mainloop()
GuiStart(p) ==
    /\ app = "gui"
    /\ pc = "mainloop"
    /\ path = p
    /\ sheets = list_sheets(p).names
    /\ sheet_var = list_sheets(p).names[1]
    /\ combo_values = list_sheets(p).names
    /\ df = load_sheet(p, list_sheets(p).names[1]).frame
    /\ row = 0
    /\ focused_url = None
    /\ buttons = render_row(load_sheet(p, list_sheets(p).names[1]).frame, 0, None).buttons
    /\ iloc_arg = render_row(load_sheet(p, list_sheets(p).names[1]).frame, 0, None).iloc
    /\ msg = IF load_sheet(p, list_sheets(p).names[1]).ok THEN "none" ELSE "error_load"
    /\ event = "init"
    /\ opened = <<>>
    /\ row_idx = 0 /\ url_focus_i = 0 /\ focused_line = NoFocus /\ ch = "none"
    /\ keys = <<>> /\ tab_run = 0 /\ tab_from = 0
    /\ view_idx = 0 /\ view_out = row_lines(EmptyFrame, 0)
    /\ NoCell

\* App(path) raises when the sheets cannot be listed or there are none
GuiInit == \E p \in {q \in Files : list_sheets(q).ok /\ list_sheets(q).names # <<>>} : GuiStart(p)

\* prev_row, lines 277-281: the new row
PrevRow(n, r) == IF n = 0 THEN r ELSE IF r > 0 THEN r - 1 ELSE r

\* next_row without the test for the last row
NextRow_NoBound(n, r) == IF n = 0 THEN r ELSE r + 1

\* next_row, lines 284-288: the new row
NextRow(n, r) == IF n = 0 THEN r ELSE IF r < n - 1 THEN r + 1 ELSE r

\* prev_row / next_row moved (or did not move) the cursor to r
RowTo(r) ==
    /\ row' = r
    /\ IF r # row
       THEN Rendered(render_row(df, r, focused_url), "none")
       ELSE /\ iloc_arg' = <<>> /\ msg' = "none"
            /\ UNCHANGED <<buttons, focused_url>>
    /\ opened' = <<>>
    /\ GuiFrame
    /\ UNCHANGED <<df, path, sheets, sheet_var, combo_values>>

GuiPrevRow ==
    /\ app = "gui" /\ pc = "mainloop"
    /\ event' = "prev_row"
    /\ RowTo(PrevRow(len(df), row))

GuiNextRow ==
    /\ app = "gui" /\ pc = "mainloop"
    /\ event' = "next_row"
    /\ RowTo(NextRow(len(df), row))

\* set_focus_url(u): the pointer enters, or the focus reaches, an "Open URL" button
GuiSetFocusUrl ==
    /\ app = "gui" /\ pc = "mainloop"
    /\ event' = "set_focus_url"
    /\ \E i \in 1..Len(buttons) : focused_url' = buttons[i]
    /\ opened' = <<>> /\ iloc_arg' = <<>> /\ msg' = "none"
    /\ GuiFrame
    /\ UNCHANGED <<df, path, sheets, sheet_var, combo_values, row, buttons>>

\* open_focused_url(): the Return key
GuiOpenFocusedUrl ==
    /\ app = "gui" /\ pc = "mainloop"
    /\ event' = "open_focused_url"
    /\ opened' = IF focused_url # None THEN <<focused_url>> ELSE <<>>
    /\ iloc_arg' = <<>> /\ msg' = "none"
    /\ GuiFrame
    /\ UNCHANGED <<df, path, sheets, sheet_var, combo_values, row, buttons, focused_url>>

\* an "Open URL" button is pressed; the pointer entered it first
GuiClickOpenUrl ==
    /\ app = "gui" /\ pc = "mainloop"
    /\ event' = "click_open_url"
    /\ \E i \in 1..Len(buttons) : focused_url' = buttons[i] /\ opened' = <<buttons[i]>>
    /\ iloc_arg' = <<>> /\ msg' = "none"
    /\ GuiFrame
    /\ UNCHANGED <<df, path, sheets, sheet_var, combo_values, row, buttons>>

\* change_file(), lines 247-259, for the picked path p; ls is what list_sheets returned
FileListed(p, ls) ==
    IF ~ls.ok
    THEN /\ msg' = "error_sheets" /\ iloc_arg' = <<>>
         /\ UNCHANGED <<sheets, combo_values, sheet_var, df, row, focused_url, buttons>>
    ELSE IF ls.names = <<>>
    THEN /\ sheets' = ls.names
         /\ msg' = "info_no_sheets" /\ iloc_arg' = <<>>
         /\ UNCHANGED <<combo_values, sheet_var, df, row, focused_url, buttons>>
    ELSE /\ sheets' = ls.names
         /\ combo_values' = ls.names
         /\ sheet_var' = ls.names[1]
         /\ Loaded(load_sheet(p, ls.names[1]))

\* change_file() when the picker returns a path
GuiChangeFile ==
    /\ app = "gui" /\ pc = "mainloop"
    /\ event' = "change_file"
    /\ \E p \in Files : path' = p /\ FileListed(p, list_sheets(p))
    /\ opened' = <<>>
    /\ GuiFrame

\* change_file() when the picker is cancelled
GuiChangeFileCancel ==
    /\ app = "gui" /\ pc = "mainloop"
    /\ event' = "change_file_cancel"
    /\ opened' = <<>> /\ iloc_arg' = <<>> /\ msg' = "none"
    /\ GuiFrame
    /\ UNCHANGED <<df, path, sheets, sheet_var, combo_values, row, buttons, focused_url>>

\* on_sheet_change(): a sheet is picked in the combobox
GuiSheetChange ==
    /\ app = "gui" /\ pc = "mainloop"
    /\ event' = "on_sheet_change"
    /\ \E i \in 1..Len(combo_values) :
           sheet_var' = combo_values[i] /\ Loaded(load_sheet(path, combo_values[i]))
    /\ opened' = <<>>
    /\ GuiFrame
    /\ UNCHANGED <<path, sheets, combo_values>>

\* open_all_urls without the https:// put before www.
PrefixWww_Never(s) == s

\* open_all_urls, lines 299-301: the text with https:// put before www.
PrefixWww(s) ==
    IF StartsWith(s, WwwLit) THEN <<"h", "t", "t", "p", "s", ":", "/", "/">> \o s ELSE s

\* open_all_urls, lines 302-303: the text is kept when it starts with a scheme
KeepHttp(s) == IF IsHttp(s) THEN s ELSE None

\* open_all_urls, lines 296-303: what a cell adds to urls, None if nothing
OpenAllUrl(x) == IF is_nan(x) THEN None ELSE KeepHttp(PrefixWww(Strip(PyStr(x))))

\* open_all_urls, lines 293-303: urls
AllUrls(r) == SelectSeq([c \in 1..Len(r) |-> OpenAllUrl(r[c])], NotNone)

\* open_all_urls, lines 304-308
OpenedAll(urls) ==
    /\ opened' = urls
    /\ msg' = IF urls = <<>> THEN "info_no_urls" ELSE "none"

GuiOpenAllUrls ==
    /\ app = "gui" /\ pc = "mainloop"
    /\ event' = "open_all_urls"
    /\ IF len(df) = 0
       THEN opened' = <<>> /\ iloc_arg' = <<>> /\ msg' = "none"
       ELSE /\ iloc_arg' = <<row>>
            /\ IF IlocOk(df, row)
               THEN OpenedAll(AllUrls(Iloc(df, row)))
               ELSE opened' = <<>> /\ msg' = "traceback"
    /\ GuiFrame
    /\ UNCHANGED <<df, path, sheets, sheet_var, combo_values, row, buttons, focused_url>>

GuiNext ==
    \/ GuiPrevRow
    \/ GuiNextRow
    \/ GuiSetFocusUrl
    \/ GuiOpenFocusedUrl
    \/ GuiClickOpenUrl
    \/ GuiChangeFile
    \/ GuiChangeFileCancel
    \/ GuiSheetChange
    \/ GuiOpenAllUrls

\* ------------------------------------------------------- one field alone

\* render_row, lines 419-431, and _add_selectable_value, line 350: the text of the
\* value widget of a field whose stripped text is s and whose url is url
GuiShownOf(s, url) ==
    IF url # None THEN url
    ELSE IF s # <<>> THEN s ELSE EmptyShown

\* render_row, lines 407-431: the text of the value widget of a cell
GuiShown(x) ==
    IF is_nan(x) THEN EmptyShown ELSE GuiShownOf(Strip(PyStr(x)), GuiUrlOf(Strip(PyStr(x))))

\* render_row, lines 405-431: the label, the value and the button url built for one column
GuiFieldLine(col, x) == [col |-> col, shown |-> GuiShown(x), url |-> GuiUrl(x)]

\* render_row, lines 404-431: what is built for the row r, in the order it is packed
GuiLinesOf(columns, r) == [c \in 1..Len(columns) |-> GuiFieldLine(columns[c], r[c])]

\* the pieces the texts of single cells are put together from
Pieces ==
    { <<"a">>, <<" ">>, <<"<">>, HttpLit, <<"H", "T", "T", "P", "S", ":", "/", "/">>,
      WwwLit, <<"W", "W", "W", ".">> }

\* the pieces of ps, one after the other
Join(ps) ==
    LET upto[k \in 0..Len(ps)] == IF k = 0 THEN <<>> ELSE upto[k - 1] \o ps[k]
    IN  upto[Len(ps)]

CellTexts == {Join(ps) : ps \in SeqsUpTo(Pieces, MaxPieces)}

\* the raw values of a cell: absent, a text, a number
Cells ==
    {NaN} \cup {Str(t) : t \in CellTexts} \cup {Float(w, f) : w \in 0..3, f \in {0, 5}}

\* what row_lines (fl, its triple) and render_row make of the cell x
CellOutOf(fl, x) ==
    [term_shown |-> fl.shown, term_url |-> fl.url, gui_shown |-> GuiShown(x), gui_url |-> GuiUrl(x)]

CellInit ==
    /\ app = "cell"
    /\ pc = "call"
    /\ cell \in Cells
    /\ cell_out = CellOutNone
    /\ gui_lines = <<>>
    /\ df = EmptyFrame
    /\ view_idx = 0 /\ view_out = row_lines(EmptyFrame, 0)
    /\ row_idx = 0 /\ url_focus_i = 0 /\ focused_line = NoFocus /\ ch = "none"
    /\ path = "" /\ sheets = <<>> /\ sheet_var = "" /\ combo_values = <<>>
    /\ row = 0 /\ focused_url = None /\ buttons = <<>>
    /\ msg = "none" /\ event = "none"
    /\ opened = <<>> /\ iloc_arg = <<>>
    /\ keys = <<>> /\ tab_run = 0 /\ tab_from = 0

\* both front ends show the field of the cell
CellCall ==
    /\ app = "cell" /\ pc = "call"
    /\ cell_out' = CellOutOf(FieldLine("c1", cell), cell)
    /\ pc' = "returned"
    /\ UNCHANGED <<app, df, termVars, guiVars, opened, iloc_arg, histVars, viewVars, cell>>

SpecCell == CellInit /\ [][CellCall]_vars

\* ------------------------------------------------------- row_lines alone

ViewInit ==
    /\ app = "view"
    /\ df \in ViewTables
    /\ view_idx \in -(ViewMaxRows + 1)..(ViewMaxRows + 1)
    /\ view_out = row_lines(EmptyFrame, 0)
    /\ NoCell
    /\ pc = "call"
    /\ row_idx = 0 /\ url_focus_i = 0 /\ focused_line = NoFocus /\ ch = "none"
    /\ path = "" /\ sheets = <<>> /\ sheet_var = "" /\ combo_values = <<>>
    /\ row = 0 /\ focused_url = None /\ buttons = <<>>
    /\ msg = "none" /\ event = "none"
    /\ opened = <<>> /\ iloc_arg = <<>>
    /\ keys = <<>> /\ tab_run = 0 /\ tab_from = 0

\* one call row_lines(df, view_idx)
ViewCall ==
    /\ app = "view" /\ pc = "call"
    /\ view_out' = row_lines(df, view_idx)
    /\ iloc_arg' = <<view_idx>>
    /\ pc' = IF IlocOk(df, view_idx) THEN "returned" ELSE "raised"
    /\ UNCHANGED <<app, df, termVars, guiVars, opened, histVars, view_idx, gui_lines, cellVars>>

\* render_row() builds the widgets of the same row; it runs for rows of the table only
ViewRender ==
    /\ app = "view" /\ pc = "returned"
    /\ 0 <= view_idx /\ view_idx < len(df)
    /\ gui_lines' = GuiLinesOf(df.columns, Iloc(df, view_idx))
    /\ pc' = "rendered"
    /\ UNCHANGED <<app, df, termVars, guiVars, opened, iloc_arg, histVars, view_idx, view_out, cellVars>>

ViewNext ==
    \/ ViewCall
    \/ ViewRender

SpecView == ViewInit /\ [][ViewNext]_vars

\* ------------------------------------------------- the navigation scenario

\* interactive() on the scenario table, its keys recorded
ScenarioInit == TermStart("scenario", ScenarioTable)

ScenarioNext ==
    \/ TermDraw
    \/ TermKeyRight
    \/ TermKeyLeft
    \/ TermKeyTab

SpecScenario == ScenarioInit /\ [][ScenarioNext]_vars

\* ---------------------------------------------------------- specifications

\* main() of either front end when the first load raises: nothing catches the
\* exception of load_xlsx (xlsx_row_viewer.py, line 206), and the one of App(path)
\* is printed and raised again (xlsx_row_viewer_gui.py, lines 448-453); the process ends
MainFailed(a, p) ==
    /\ app = a
    /\ pc = "load_failed"
    /\ path = p
    /\ msg = "error_exit"
    /\ df = EmptyFrame
    /\ sheets = <<>> /\ sheet_var = "" /\ combo_values = <<>>
    /\ row = 0 /\ focused_url = None /\ buttons = <<>>
    /\ event = "none"
    /\ row_idx = 0 /\ url_focus_i = 0 /\ focused_line = NoFocus /\ ch = "none"
    /\ opened = <<>> /\ iloc_arg = <<>>
    /\ keys = <<>> /\ tab_run = 0 /\ tab_from = 0
    /\ view_idx = 0 /\ view_out = row_lines(EmptyFrame, 0)
    /\ NoCell

\* the terminal viewer is started on a file that cannot be read
TermLoadFailed == \E p \in {q \in Files : ~list_sheets(q).ok} : MainFailed("term", p)

\* the GUI is started on a file whose sheets cannot be listed, or that has none
GuiLoadFailed ==
    \E p \in {q \in Files : ~list_sheets(q).ok \/ list_sheets(q).names = <<>>} : MainFailed("gui", p)

Init ==
    \/ TermInit
    \/ GuiInit
    \/ TermLoadFailed
    \/ GuiLoadFailed

Next == TermNext \/ GuiNext

Spec == Init /\ [][Next]_vars

\* ------------------------------------------------------------------ claims

\* url_line_indices of row r of the table d (row_lines(d, r)[1]), empty if there is no such row
UrlListAt(d, r) == IF IlocOk(d, r) THEN row_lines(d, r).url_line_indices ELSE <<>>

\* the URL focus of a navigation state: f, or NoFocus when the row has no URL
FocusAt(d, r, f) == IF UrlListAt(d, r) = <<>> THEN NoFocus ELSE f

\* url_line_indices of the row the terminal viewer shows
UrlList == UrlListAt(df, row_idx)

\* the URL focus of the terminal viewer
UrlFocus == FocusAt(df, row_idx, url_focus_i)

\* C1: with a table of at least one row loaded, the record cursor of either
\* front end is always a row of the table: 0 <= cursor < rowCount.
C1_CursorInRange ==
    len(df) >= 1 =>
        /\ IsTerm => (0 <= row_idx /\ row_idx < len(df))
        /\ app = "gui" => (0 <= row /\ row < len(df))

\* the cursor stands on the last of several rows after KEY_RIGHT was pressed there
C1_Witness ==
    /\ app = "term" /\ pc = "draw" /\ ch = "KEY_RIGHT"
    /\ len(df) >= 2 /\ row_idx = len(df) - 1 /\ url_focus_i > 0

\* C2: a row key that moves the cursor sets url_focus_i to 0 whatever it was, and
\* the draw() that follows focuses the first URL line of the new row, or no line
\* (NoFocus) when the new row has no URL.
C2_FocusResetOnRowChange ==
    [][ /\ (IsTerm /\ row_idx' # row_idx) =>
               /\ url_focus_i' = 0
               /\ FocusAt(df', row_idx', url_focus_i') =
                      IF UrlListAt(df', row_idx') # <<>> THEN 0 ELSE NoFocus
        /\ (IsTerm /\ pc = "draw" /\ pc' = "getch" /\ url_focus_i = 0 /\ len(df) > 0) =>
               /\ url_focus_i' = 0
               /\ focused_line' = IF UrlList # <<>> THEN UrlList[1] ELSE NoFocus
      ]_vars

\* KEY_LEFT has just moved the cursor off a row whose third line was focused
\* (its focus was not 0) onto a row that has URLs
C2_Witness ==
    /\ app = "term" /\ pc = "draw" /\ ch = "KEY_LEFT"
    /\ focused_line = 2 /\ url_focus_i = 0 /\ UrlList # <<>>

\* C3: the focus is an index into the URL list of the current row whenever that
\* list is not empty, and after every draw() a line is focused exactly when the
\* list is not empty, that line being url_line_indices[url_focus_i]; no lookup
\* raises.
C3_UrlFocusInRange ==
    IsTerm =>
        /\ pc # "crashed"
        /\ UrlList # <<>> => (0 <= url_focus_i /\ url_focus_i < Len(UrlList))
        /\ (pc \in {"getch", "done"} /\ len(df) > 0) =>
               /\ (focused_line = NoFocus) <=> (UrlList = <<>>)
               /\ UrlList # <<>> => focused_line = UrlList[url_focus_i + 1]

\* ENTER has just opened the last of three URLs of a row
C3_Witness ==
    /\ app = "term" /\ pc = "draw" /\ ch = "ENTER"
    /\ Len(UrlList) = 3 /\ url_focus_i = 2 /\ opened # <<>>

\* C4: KEY_RIGHT on the last row and KEY_LEFT on the first row change neither the
\* cursor nor the URL focus, and the draw() that follows leaves the focus alone;
\* next_row on the last row and prev_row on the first row of the GUI change
\* neither the row nor what is rendered and focused.
C4_BoundaryNoOp ==
    [][ /\ (IsTerm /\ pc = "getch" /\ len(df) > 0 /\ ch' = "KEY_RIGHT"
                /\ row_idx = len(df) - 1) =>
               (row_idx' = row_idx /\ url_focus_i' = url_focus_i)
        /\ (IsTerm /\ pc = "getch" /\ len(df) > 0 /\ ch' = "KEY_LEFT" /\ row_idx = 0) =>
               (row_idx' = row_idx /\ url_focus_i' = url_focus_i)
        /\ (IsTerm /\ pc = "draw") => url_focus_i' = url_focus_i
        /\ (app = "gui" /\ len(df) > 0 /\ event' = "next_row" /\ row = len(df) - 1) =>
               UNCHANGED <<row, df, focused_url, buttons>>
        /\ (app = "gui" /\ len(df) > 0 /\ event' = "prev_row" /\ row = 0) =>
               UNCHANGED <<row, df, focused_url, buttons>>
      ]_vars

\* KEY_RIGHT was pressed on the last row while its second or third URL was focused
C4_Witness ==
    /\ app = "term" /\ pc = "getch" /\ ch = "KEY_RIGHT"
    /\ len(df) >= 2 /\ row_idx = len(df) - 1 /\ url_focus_i > 0 /\ tab_run = 0

\* C5: TAB on a row with n >= 1 URLs sets the focus to (focus + 1) mod n and keeps
\* the row; after n TABs in a row the focus is back where the run began.
C5_TabCycles ==
    /\ [][ (IsTerm /\ pc = "getch" /\ ch' = "TAB" /\ pc' = "draw" /\ UrlList # <<>>) =>
               /\ url_focus_i' = (url_focus_i + 1) % Len(UrlList)
               /\ row_idx' = row_idx
         ]_vars
    /\ [](IsTerm /\ UrlList # <<>> /\ tab_run = Len(UrlList) => url_focus_i = tab_from)

\* three TABs in a row on a row of three URLs, begun with the second one focused
C5_Witness ==
    /\ app = "term" /\ Len(UrlList) = 3 /\ tab_run = 3 /\ tab_from = 1 /\ url_focus_i = 1

\* C6: TAB never moves the cursor, and on a row without URLs it changes nothing:
\* not the focus, not the table, and nothing is opened.
C6_TabFrame ==
    [][ (IsTerm /\ pc = "getch" /\ len(df) > 0 /\ ch' = "TAB") =>
            /\ row_idx' = row_idx /\ df' = df
            /\ UrlList = <<>> =>
                   (url_focus_i' = url_focus_i /\ opened' = <<>> /\ pc' # "crashed")
      ]_vars

\* TAB was pressed on a row without URLs that is not the first row
C6_Witness ==
    /\ app = "term" /\ pc = "draw" /\ ch = "TAB"
    /\ len(df) > 0 /\ row_idx > 0 /\ UrlList = <<>> /\ url_focus_i = 0

\* the navigation states the scenario of section 8 lists, one per key of Script
Expected ==
    <<<<1, NoFocus>>, <<2, 0>>, <<2, 1>>, <<2, 0>>, <<1, NoFocus>>, <<0, 0>>, <<0, 0>>>>

\* C7: on the scenario table, started at (0, 0), the keys RIGHT, RIGHT, TAB, TAB,
\* LEFT, LEFT, LEFT lead through (1, none), (2, 0), (2, 1), (2, 0), (1, none),
\* (0, 0), (0, 0).
C7_Scenario ==
    /\ keys = <<>> => <<row_idx, UrlFocus>> = <<0, 0>>
    /\ \A k \in 1..Len(Script) :
           keys = SubSeq(Script, 1, k) => <<row_idx, UrlFocus>> = Expected[k]

\* the whole script has been read and the last state drawn
C7_Witness == app = "scenario" /\ keys = Script /\ pc = "getch"

C9_IlocInRange ==
    app \in {"term", "gui"} =>
        /\ \A i \in 1..Len(iloc_arg) : 0 <= iloc_arg[i] /\ iloc_arg[i] < len(df)
        /\ pc # "crashed" /\ msg # "traceback"

\* change_file has just loaded and rendered a table of two rows
C9_Witness ==
    app = "gui" /\ event = "change_file" /\ len(df) = 2 /\ iloc_arg = <<0>> /\ path = "b.xlsx"

\* C10: row_lines called with a row position outside [0, rowCount) raises and
\* returns no view.
C10_OutOfRangeRaises ==
    (app = "view" /\ pc # "call" /\ ~(0 <= view_idx /\ view_idx < len(df))) =>
        (pc = "raised" /\ ~view_out.ok)

\* C11: ENTER opens exactly the normalized URL of the field at
\* url_line_indices[url_focus_i] of the current row when the row has URLs, and opens
\* nothing and raises nothing when it has none; the cursor and the URL focus stay
\* as they are.
C11_EnterOpensFocused ==
    [][ (IsTerm /\ pc = "getch" /\ len(df) > 0 /\ ch' = "ENTER") =>
            /\ row_idx' = row_idx /\ url_focus_i' = url_focus_i /\ pc' # "crashed"
            /\ opened' =
                   IF UrlList = <<>> THEN <<>>
                   ELSE <<normalize_url(to_str(Iloc(df, row_idx)[UrlList[url_focus_i + 1] + 1]))>>
      ]_vars

\* ENTER has just opened the second of the two URLs of a row, the one of its third field
C11_Witness ==
    /\ app = "term" /\ pc = "draw" /\ ch = "ENTER"
    /\ Len(UrlList) = 2 /\ url_focus_i = 1
    /\ opened = <<<<"h", "t", "t", "p", "s", ":", "/", "/", "W", "W", "W", ".", "a">>>>

\* the length of the token of C12 that starts at position i of s, 0 if none: one of
\* https://, http://, www. (any case) and then at least one allowed character
TokenLen(s, i) ==
    FirstNonZero(LitRunLen(s, i, HttpsLit),
                 FirstNonZero(LitRunLen(s, i, HttpLit), LitRunLen(s, i, WwwLit)))

\* the leftmost token of s, https:// put before it when it starts with www.
TokenFrom(s, hits) ==
    IF hits = {} THEN None
    ELSE WithScheme(SubSeq(s, SetMin(hits), SetMin(hits) + TokenLen(s, SetMin(hits)) - 1))

\* C12: normalize_url returns None for a text without a token that starts with
\* http://, https:// or www. (any case) and goes on with an allowed character, and
\* otherwise the leftmost such token, run to its end, with https:// before www.
C12_Detector ==
    (app = "cell" /\ pc = "returned" /\ cell.kind = "str") =>
        cell_out.term_url = TokenFrom(cell.s, {i \in 1..Len(cell.s) : TokenLen(cell.s, i) > 0})

\* row_lines, and render_row after it, have built the view of a row of the table
ViewBuilt == app = "view" /\ pc \in {"returned", "rendered"} /\ 0 <= view_idx /\ view_idx < len(df)

\* the entries of the URL index list L of lines are positions of lines that carry a
\* URL, in strictly increasing order
IndexListSound(L, lines) ==
    \A k \in 1..Len(L) :
        /\ 0 <= L[k] /\ L[k] < Len(lines)
        /\ lines[L[k] + 1].url # None
        /\ k > 1 => L[k - 1] < L[k]

\* every line that carries a URL has its position in L
IndexListComplete(L, lines) ==
    \A j \in 1..Len(lines) : lines[j].url # None => \E k \in 1..Len(L) : L[k] = j - 1

\* C13: for a row of the table, url_line_indices is strictly increasing, each entry
\* is the position of a line with a URL, and every line with a URL is listed.
C13_UrlIndexList ==
    ViewBuilt =>
        /\ IndexListSound(view_out.url_line_indices, view_out.lines)
        /\ IndexListComplete(view_out.url_line_indices, view_out.lines)

\* the view of a row of two fields of which only the second carries a URL
C13_Witness ==
    /\ ViewBuilt /\ pc = "returned"
    /\ view_out.url_line_indices = <<1>>
    /\ view_out.lines[1].url = None /\ view_out.lines[2].url # None

\* lines holds one entry per column, the i-th one named after the i-th column
ColumnOrderKept(lines, columns) ==
    /\ Len(lines) = Len(columns)
    /\ \A i \in 1..Len(lines) : i <= Len(columns) => lines[i].col = columns[i]

\* C14: for a row of the table, row_lines returns one line per column of the table,
\* the i-th line named after the i-th column, and render_row builds its labels in
\* the same way; columns with empty values are kept.
C14_ColumnOrder ==
    /\ ViewBuilt => ColumnOrderKept(view_out.lines, df.columns)
    /\ (ViewBuilt /\ pc = "rendered") => ColumnOrderKept(gui_lines, df.columns)

\* both front ends have built the view of a row whose first cell is absent
C14_Witness ==
    /\ ViewBuilt /\ pc = "rendered"
    /\ is_nan(Iloc(df, view_idx)[1])
    /\ Len(gui_lines) = 2 /\ gui_lines[1].shown = EmptyShown
    /\ Len(view_out.lines) = 2 /\ view_out.lines[1].shown = EmptyShown

\* the cell is absent, or a text that is empty once trimmed
IsEmptyCell(x) == is_nan(x) \/ (x.kind = "str" /\ Strip(x.s) = <<>>)

\* the cell is a number whose value is an integer
IsWholeNumber(x) == x.kind = "float" /\ x.frac = 0

\* the string shown for the cell x is as C15 has it
ShownAsClaimed(shown, x) ==
    /\ IsEmptyCell(x) => shown = EmptyShown
    /\ IsWholeNumber(x) => shown = <<DigitChars[x.whole + 1]>>
    /\ shown = Strip(shown)

\* C15: in both front ends an absent cell and a cell whose trimmed text is empty
\* are shown as "(empty)", a number that is an integer is shown without a decimal
\* point, and what is shown is trimmed.
C15_DisplayedString ==
    (app = "cell" /\ pc = "returned") =>
        /\ ShownAsClaimed(cell_out.term_shown, cell)
        /\ ShownAsClaimed(cell_out.gui_shown, cell)

\* the file picked in change_file could not be listed or has no sheet: no sheet was loaded
NothingLoaded(m) == m \in {"error_sheets", "info_no_sheets"}

LoadFailureReported == msg \in {"error_load", "error_sheets", "error_exit"}

\* C17: after a load failure the program is still running and shows the empty
\* table, on which navigation does nothing.
C17_LoadFailureSurvived ==
    (app \in {"term", "gui"} /\ LoadFailureReported) =>
        /\ pc \in {"mainloop", "draw", "getch"}
        /\ len(df) = 0 /\ row = 0 /\ focused_url = None /\ buttons = <<>>

\* C18: for every cell, render_row shows an "Open URL" button exactly when
\* normalize_url finds a URL in the cell's text, and for the same URL.
C18_SameUrlDecision ==
    (app = "cell" /\ pc = "returned") => cell_out.gui_url = cell_out.term_url

\* u is the url of the "Open URL" button of a field of row r of the table d
UrlOfRow(u, d, r) ==
    /\ len(d) > 0 /\ 0 <= r /\ r < len(d)
    /\ \E c \in 1..Len(d.columns) : GuiUrl(Iloc(d, r)[c]) = u

\* C19: in the GUI focused_url is None or the url of a field of the row shown of
\* the table loaded; a step that changes the row or the table leaves it None; and
\* what Return opens is a url of the row shown.
C19_FocusedUrlCurrent ==
    /\ []((app = "gui" /\ pc = "mainloop") =>
            /\ focused_url = None \/ UrlOfRow(focused_url, df, row)
            /\ (event = "open_focused_url" /\ opened # <<>>) =>
                   (Len(opened) = 1 /\ UrlOfRow(opened[1], df, row)))
    /\ [][ (app = "gui" /\ (row' # row \/ df' # df)) => focused_url' = None ]_vars

\* Return has opened the second URL of the third row, focused after the row was reached
C19_Witness ==
    /\ app = "gui" /\ event = "open_focused_url" /\ row = 2
    /\ Len(buttons) = 2 /\ focused_url = buttons[2] /\ opened = <<buttons[2]>>

\* C20: on a table with rows, open_all_urls opens exactly the urls of the "Open
\* URL" buttons render_row built for the row shown, once each and in column order;
\* it shows the "No URLs" notice and opens nothing exactly when there is no such
\* button; it changes neither the row nor focused_url.
C20_OpenAllMatchesButtons ==
    [][ (app = "gui" /\ len(df) > 0 /\ event' = "open_all_urls") =>
            /\ opened' = buttons
            /\ opened' = RenderButtons(Iloc(df, row))
            /\ (msg' = "info_no_urls") <=> (buttons = <<>>)
            /\ msg' # "traceback"
            /\ UNCHANGED <<row, focused_url, buttons, df>>
      ]_vars

\* "Open all URLs in row" has opened the two URLs the GUI shows a button for in a
\* row of three fields, the first of them a www. text
C20_Witness ==
    /\ app = "gui" /\ event = "open_all_urls" /\ sheet_var = "S2" /\ len(df) = 1
    /\ Len(buttons) = 2 /\ opened = buttons /\ msg = "none"
    /\ opened[1] = <<"h", "t", "t", "p", "s", ":", "/", "/", "w", "w", "w", ".", "a">>

\* the table load_current_sheet leaves behind for the sheet s of the file p
TableOf(p, s) == IF load_sheet(p, s).ok THEN load_sheet(p, s).frame ELSE EmptyFrame

\* change_file has just reported a file whose sheets could not be listed, or that has none
ChangeFileFailed(e, m) == e = "change_file" /\ m \in {"error_sheets", "info_no_sheets"}

\* C21: in the GUI the path, the sheets, the values of the sheet selector and the
\* table always belong to one file - the sheets are those of the file at path and
\* the table is the selected sheet of that file - and a change_file that fails
\* leaves path, sheets, selector, table and row as they were.
C21_SameFile ==
    /\ []((app = "gui" /\ pc = "mainloop") =>
            /\ list_sheets(path).ok
            /\ sheets = list_sheets(path).names
            /\ combo_values = list_sheets(path).names
            /\ df = TableOf(path, sheet_var))
    /\ [][ (app = "gui" /\ ChangeFileFailed(event', msg')) =>
               UNCHANGED <<path, sheets, combo_values, sheet_var, df, row>>
         ]_vars

====
